---- MODULE Spec2Model ----
(***************************************************************************)
(* Archon local backend: the retrieval layer (RAGService on top of         *)
(* BaseSearchStrategy on top of a Qdrant client) and the SQLite backed     *)
(* TaskService.                                                            *)
(*                                                                         *)
(* Python values are encoded as follows.                                   *)
(*   dict            a TLA+ function from key strings to values            *)
(*   dict | None     [isNone |-> BOOLEAN, dict |-> function]  (payload)    *)
(*                   [isNone |-> BOOLEAN, items |-> sequence of [k, v]]    *)
(*                   (filter_metadata: a dict in insertion order)          *)
(*   list[float]     one integer (a one-dimensional vector)                *)
(*   an exception    the name of its class, a string                       *)
(***************************************************************************)
EXTENDS Integers, Sequences, FiniteSets

VARIABLES
    pc,              \* call -> "idle" | "embedding" | "returned" | "raised"
    op,              \* call -> the entry point the caller used
    args,            \* call -> the arguments of the call
    trace,           \* call -> the collaborator calls made so far with how each
                     \*         ended, in order (what a mock of each would record)
    requests,        \* call -> the arguments of its client.search calls, in order
    raw,             \* call -> the store's response (the value of `results`)
    result,          \* call -> the list the call returned
    error,           \* call -> the exception the call raised ("" when none)
    store,           \* the vector store: collection -> sequence of points
    collection_map,  \* BaseSearchStrategy.COLLECTION_MAP
    archon_tasks,    \* the rows of table archon_tasks, in rowid order
    last             \* what the latest TaskService call did and returned

searchVars == <<pc, op, args, trace, requests, raw, result, error, store, collection_map>>
taskVars == <<archon_tasks, last>>
vars == <<pc, op, args, trace, requests, raw, result, error, store, collection_map,
          archon_tasks, last>>

(***************************************************************************)
(* Bounds.                                                                 *)
(***************************************************************************)
NumCalls == 2
MaxMatchCount == 3
MaxTasks == 2

Calls == 1..NumCalls

(***************************************************************************)
(* Python helpers.                                                         *)
(***************************************************************************)
EmptyDict == [k \in {} |-> ""]

NoneDict == [isNone |-> TRUE, dict |-> EmptyDict]

SomeDict(d) == [isNone |-> FALSE, dict |-> d]

\* `x or {}` for x: dict | None
OrEmptyDict(x) == IF x.isNone \/ DOMAIN x.dict = {} THEN EmptyDict ELSE x.dict

\* {**a, **b}: the keys of both, b's value where both have the key
DictMerge(a, b) ==
    [k \in DOMAIN a \cup DOMAIN b |-> IF k \in DOMAIN b THEN b[k] ELSE a[k]]

Abs(n) == IF n < 0 THEN -n ELSE n

Min(a, b) == IF a < b THEN a ELSE b

(***************************************************************************)
(* The embedding provider (services/embeddings/embedding_service.py, not   *)
(* part of the sources at hand): a function from text to a vector that may *)
(* fail.                                                                   *)
(***************************************************************************)
Queries == {"connection pooling", "auth"}

EmbeddingErrors == {"EmbeddingError"}

create_embedding(query) == IF query = "connection pooling" THEN 1 ELSE 3

Vectors == {create_embedding(q) : q \in Queries}

(***************************************************************************)
(* The vector store (qdrant_client.QdrantClient, a third party library).   *)
(* search(collection_name, query_vector, limit, query_filter) answers the  *)
(* points of the collection that satisfy every condition of the filter,    *)
(* best score first, at most `limit` of them; it fails on an unknown       *)
(* collection and on a connection failure.                                 *)
(***************************************************************************)
InitialStore ==
    [docs |-> << [id |-> "d1", vector |-> 1,
                  payload |-> SomeDict([language |-> "go", source |-> "s1"])],
                 [id |-> "d2", vector |-> 3,
                  payload |-> SomeDict([language |-> "py", source |-> "s1"])],
                 [id |-> "d3", vector |-> 2, payload |-> NoneDict] >>,
     code |-> << [id |-> "k1", vector |-> 3,
                  payload |-> SomeDict([language |-> "go"])],
                 [id |-> "k2", vector |-> 1,
                  payload |-> SomeDict([id |-> "shadow", score |-> 0, language |-> "go"])] >>]

StoreFaults == {"none", "ConnectionError", "UnexpectedResponse"}

Score(query_vector, point) == 10 - 3 * Abs(query_vector - point.vector)

Scored(query_vector, point) ==
    [id |-> point.id, score |-> Score(query_vector, point), payload |-> point.payload]

Satisfies(point, query_filter) ==
    query_filter.isNone \/
    \A i \in 1..Len(query_filter.must) :
        LET cond == query_filter.must[i]
            d == OrEmptyDict(point.payload)
        IN cond.key \in DOMAIN d /\ d[cond.key] = cond.match.value

RECURSIVE SelectPoints(_, _)
SelectPoints(points, query_filter) ==
    IF Len(points) = 0 THEN <<>>
    ELSE (IF Satisfies(Head(points), query_filter) THEN <<Head(points)>> ELSE <<>>)
         \o SelectPoints(Tail(points), query_filter)

RECURSIVE InsertByScore(_, _)
InsertByScore(h, s) ==
    IF Len(s) = 0 THEN <<h>>
    ELSE IF Head(s).score > h.score THEN <<Head(s)>> \o InsertByScore(h, Tail(s))
    ELSE <<h>> \o s

RECURSIVE RankHits(_)
RankHits(s) == IF Len(s) = 0 THEN <<>> ELSE InsertByScore(Head(s), RankHits(Tail(s)))

Take(s, n) == IF n <= 0 THEN <<>> ELSE SubSeq(s, 1, Min(n, Len(s)))

\* The answer of client.search to request req: [kind, error, hits].  A fault of
\* "ConnectionError" is a connection failure; "UnexpectedResponse" is the store
\* refusing a limit that is not positive (a store may also answer it with no hit).
StoreSearch(st, req, fault) ==
    IF fault = "ConnectionError"
    THEN [kind |-> "raise", error |-> "ConnectionError", hits |-> <<>>]
    ELSE IF req.collection_name \notin DOMAIN st
    THEN [kind |-> "raise", error |-> "CollectionNotFound", hits |-> <<>>]
    ELSE IF fault = "UnexpectedResponse" /\ req.limit <= 0
    THEN [kind |-> "raise", error |-> "UnexpectedResponse", hits |-> <<>>]
    ELSE [kind |-> "ok", error |-> "",
          hits |-> Take(RankHits([i \in 1..Len(SelectPoints(st[req.collection_name], req.query_filter)) |->
                                   Scored(req.query_vector,
                                          SelectPoints(st[req.collection_name], req.query_filter)[i])]),
                        req.limit)]

(***************************************************************************)
(* BaseSearchStrategy (search/base_search_strategy.py).                    *)
(***************************************************************************)
COLLECTION_MAP ==
    [match_archon_crawled_pages |-> "docs", match_archon_code_examples |-> "code"]

\* dict.get(key, default)
DictGet(d, key, default) == IF key \in DOMAIN d THEN d[key] ELSE default

\* Mutant: an alias the table does not know falls back to "docs".
ResolveCollection_default(cmap, table_rpc) == DictGet(cmap, table_rpc, "docs")

\* collection = self.COLLECTION_MAP.get(table_rpc, table_rpc)
ResolveCollection(cmap, table_rpc) == DictGet(cmap, table_rpc, table_rpc)

\* `if filter_metadata:` a dict is true when it is neither None nor empty
Truthy(filter_metadata) == ~filter_metadata.isNone /\ Len(filter_metadata.items) > 0

MatchValue(v) == [value |-> v]

FieldCondition(key, match) == [key |-> key, match |-> match]

NoFilter == [isNone |-> TRUE, must |-> <<>>]

\* query_filter = None; if filter_metadata: must = [...]; Filter(must=must)
BuildFilter(filter_metadata) ==
    IF Truthy(filter_metadata)
    THEN [isNone |-> FALSE,
          must |-> [i \in 1..Len(filter_metadata.items) |->
                      FieldCondition(filter_metadata.items[i].k,
                                     MatchValue(filter_metadata.items[i].v))]]
    ELSE NoFilter

\* Mutant: the limit is clamped to at least 1.
SearchRequest_clamped(cmap, query_embedding, match_count, filter_metadata, table_rpc) ==
    [collection_name |-> ResolveCollection(cmap, table_rpc),
     query_vector |-> query_embedding,
     limit |-> IF match_count < 1 THEN 1 ELSE match_count,
     query_filter |-> BuildFilter(filter_metadata)]

\* the keyword arguments of self.client.search(...)
SearchRequest(cmap, query_embedding, match_count, filter_metadata, table_rpc) ==
    [collection_name |-> ResolveCollection(cmap, table_rpc),
     query_vector |-> query_embedding,
     limit |-> match_count,
     query_filter |-> BuildFilter(filter_metadata)]

\* Mutant: {**(r.payload or {}), "id": r.id, "score": r.score}
ShapeHit_idLast(r) == DictMerge(OrEmptyDict(r.payload), [id |-> r.id, score |-> r.score])

\* {"id": r.id, "score": r.score, **(r.payload or {})}
ShapeHit(r) == DictMerge([id |-> r.id, score |-> r.score], OrEmptyDict(r.payload))

\* Mutant: the hits are returned in reverse order.
ShapeResults_reversed(results) ==
    [i \in 1..Len(results) |-> ShapeHit(results[Len(results) + 1 - i])]

\* [ {...} for r in results ]
ShapeResults(results) == [i \in 1..Len(results) |-> ShapeHit(results[i])]

\* What a call did: how it ended (kind "ok" with value, or "raise" with error),
\* its client.search calls (the request and how the store answered it), the
\* store's hits, and the store after the call.
Raise(e, searches, st) ==
    [kind |-> "raise", value |-> <<>>, error |-> e, searches |-> searches, raw |-> <<>>,
     store |-> st]

\* Mutant: a search removes the best point of "docs" from the store.
Return_consuming(v, searches, hits, st) ==
    [kind |-> "ok", value |-> v, error |-> "", searches |-> searches, raw |-> hits,
     store |-> [st EXCEPT !.docs = IF Len(st.docs) = 0 THEN <<>> ELSE Tail(st.docs)]]

Return(v, searches, hits, st) ==
    [kind |-> "ok", value |-> v, error |-> "", searches |-> searches, raw |-> hits,
     store |-> st]

Searched(req, ans) ==
    [request |-> req, answer |-> IF ans.kind = "ok" THEN "ok" ELSE ans.error]

\* Mutant: a failed search is answered with an empty list.
OnStoreAnswer_swallow(st, req, ans) ==
    IF ans.kind = "raise"
    THEN Return(<<>>, <<Searched(req, ans)>>, <<>>, st)
    ELSE Return(ShapeResults(ans.hits), <<Searched(req, ans)>>, ans.hits, st)

\* How vector_search ends once the store has answered `ans` to request `req`:
\* client.search's exception is not caught, its hits are shaped one by one.
OnStoreAnswer(st, req, ans) ==
    IF ans.kind = "raise"
    THEN Raise(ans.error, <<Searched(req, ans)>>, st)
    ELSE Return(ShapeResults(ans.hits), <<Searched(req, ans)>>, ans.hits, st)

\* BaseSearchStrategy.vector_search.  models.MatchValue is a class of the
\* qdrant_client library and line 47 calls it with one positional argument:
\* the library's pydantic models take keyword arguments only and raise
\* TypeError on such a call, a test double accepts it.  `positional` says
\* whether the class at hand accepts the call; `fault` is the store's fault.
vector_search(st, cmap, query_embedding, match_count, filter_metadata, table_rpc, positional, fault) ==
    IF Truthy(filter_metadata) /\ ~positional
    THEN Raise("TypeError", <<>>, st)
    ELSE LET req == SearchRequest(cmap, query_embedding, match_count, filter_metadata,
                                  table_rpc)
         IN OnStoreAnswer(st, req, StoreSearch(st, req, fault))

(***************************************************************************)
(* RAGService (search/rag_service.py).                                     *)
(***************************************************************************)
DefaultMatchCount == 5

\* `with safe_span(...) as span:` (config/logfire_config.py, not part of the
\* sources at hand): a span for observability that leaves the outcome of its
\* body as it is, an exception included.
safe_span(outcome) == outcome

\* Mutant: a failed embedding falls back to a search with the zero vector.
OnEmbedding_fallback(st, cmap, table_rpc, match_count, filter_metadata, emb, positional, fault) ==
    vector_search(st, cmap, IF emb.kind = "raise" THEN 0 ELSE emb.value, match_count,
                  filter_metadata, table_rpc, positional, fault)

\* The body of search_documents / search_code_examples from the point where
\* `await create_embedding(query)` has ended with `emb`.
OnEmbedding(st, cmap, table_rpc, match_count, filter_metadata, emb, positional, fault) ==
    IF emb.kind = "raise"
    THEN Raise(emb.error, <<>>, st)
    ELSE vector_search(st, cmap, emb.value, match_count, filter_metadata, table_rpc,
                       positional, fault)

\* Mutant: the embedding of a text another call already asked for is reused.
EmbeddingCalls_cached(query) ==
    IF \E d \in Calls : pc[d] # "idle" /\ args[d].query = query
    THEN <<>>
    ELSE <<[call |-> "create_embedding", outcome |-> "pending"]>>

\* `await create_embedding(query)`: the embedding calls a method makes for one
\* call of it.
EmbeddingCalls(query) == <<[call |-> "create_embedding", outcome |-> "pending"]>>

\* The pending embedding call of trace `tr` has ended with `emb`.
Resolved(tr, emb) ==
    [i \in 1..Len(tr) |->
        IF tr[i].outcome = "pending"
        THEN [tr[i] EXCEPT !.outcome = IF emb.kind = "ok" THEN "ok" ELSE emb.error]
        ELSE tr[i]]

\* The client.search calls of outcome `out`, as trace entries.
SearchCalls(out) ==
    [i \in 1..Len(out.searches) |->
        [call |-> "client.search", outcome |-> out.searches[i].answer]]

(***************************************************************************)
(* Inputs.                                                                 *)
(***************************************************************************)
FilterNone == [isNone |-> TRUE, items |-> <<>>]

FilterEmpty == [isNone |-> FALSE, items |-> <<>>]

FilterGo == [isNone |-> FALSE, items |-> <<[k |-> "language", v |-> "go"]>>]

FilterGoS1 ==
    [isNone |-> FALSE,
     items |-> <<[k |-> "source", v |-> "s1"], [k |-> "language", v |-> "go"]>>]

Filters == {FilterNone, FilterEmpty, FilterGo, FilterGoS1}

MatchCounts == (-1)..MaxMatchCount

\* The (match_count, filter_metadata) pairs given to the RAGService methods:
\* the defaults, a filter, and a count that is not positive.
ServiceInputs ==
    {[match_count |-> DefaultMatchCount, filter_metadata |-> FilterNone],
     [match_count |-> DefaultMatchCount, filter_metadata |-> FilterGo],
     [match_count |-> 0, filter_metadata |-> FilterNone]}

Aliases == {"match_archon_crawled_pages", "match_archon_code_examples", "docs", "foo"}

EmbeddingOutcomes(query) ==
    {[kind |-> "ok", value |-> create_embedding(query), error |-> ""]}
    \cup {[kind |-> "raise", value |-> 0, error |-> e] : e \in EmbeddingErrors}

NoArgs ==
    [query |-> "", query_embedding |-> 0, match_count |-> 0,
     filter_metadata |-> FilterNone, table_rpc |-> ""]

Init ==
    /\ pc = [c \in Calls |-> "idle"]
    /\ op = [c \in Calls |-> "none"]
    /\ args = [c \in Calls |-> NoArgs]
    /\ trace = [c \in Calls |-> <<>>]
    /\ requests = [c \in Calls |-> <<>>]
    /\ raw = [c \in Calls |-> <<>>]
    /\ result = [c \in Calls |-> <<>>]
    /\ error = [c \in Calls |-> ""]
    /\ store = InitialStore
    /\ collection_map = COLLECTION_MAP
    /\ archon_tasks = <<>>
    /\ last = [op |-> "none", status |-> "", task_id |-> 0, ok |-> TRUE, error |-> "",
               raised |-> FALSE, opened |-> FALSE, changed |-> FALSE]

\* Calls are numbered in the order they are made.
NextToStart(c) == pc[c] = "idle" /\ \A d \in Calls : d < c => pc[d] # "idle"

\* A call of a RAGService method starts: it runs to `await create_embedding(query)`.
Begin(c, name, query, match_count, filter_metadata) ==
    /\ NextToStart(c)
    /\ pc' = [pc EXCEPT ![c] = "embedding"]
    /\ op' = [op EXCEPT ![c] = name]
    /\ args' = [args EXCEPT ![c] = [query |-> query, query_embedding |-> 0,
                                    match_count |-> match_count,
                                    filter_metadata |-> filter_metadata,
                                    table_rpc |-> ""]]
    /\ trace' = [trace EXCEPT ![c] = EmbeddingCalls(query)]
    /\ UNCHANGED <<requests, raw, result, error, store, collection_map, taskVars>>

\* The call ends with `out`.
End(c, out, tr) ==
    /\ pc' = [pc EXCEPT ![c] = IF out.kind = "ok" THEN "returned" ELSE "raised"]
    /\ trace' = [trace EXCEPT ![c] = tr]
    /\ requests' = [requests EXCEPT ![c] =
                        [i \in 1..Len(out.searches) |-> out.searches[i].request]]
    /\ raw' = [raw EXCEPT ![c] = out.raw]
    /\ result' = [result EXCEPT ![c] = out.value]
    /\ error' = [error EXCEPT ![c] = out.error]
    /\ store' = out.store

search_documents(c, query, match_count, filter_metadata) ==
    Begin(c, "search_documents", query, match_count, filter_metadata)

search_code_examples(c, query, match_count, filter_metadata) ==
    Begin(c, "search_code_examples", query, match_count, filter_metadata)

\* create_embedding ends and search_documents runs to its end: vector_search
\* has no await of its own, so nothing interleaves with it.
search_documents_resume(c, emb, positional, fault) ==
    /\ pc[c] = "embedding" /\ op[c] = "search_documents"
    /\ LET out == safe_span(OnEmbedding(store, collection_map, "match_archon_crawled_pages",
                                        args[c].match_count, args[c].filter_metadata,
                                        emb, positional, fault))
       IN End(c, out, Resolved(trace[c], emb) \o SearchCalls(out))
    /\ UNCHANGED <<op, args, collection_map, taskVars>>

search_code_examples_resume(c, emb, positional, fault) ==
    /\ pc[c] = "embedding" /\ op[c] = "search_code_examples"
    /\ LET out == safe_span(OnEmbedding(store, collection_map, "match_archon_code_examples",
                                        args[c].match_count, args[c].filter_metadata,
                                        emb, positional, fault))
       IN End(c, out, Resolved(trace[c], emb) \o SearchCalls(out))
    /\ UNCHANGED <<op, args, collection_map, taskVars>>

\* A direct call of BaseSearchStrategy.vector_search.
vector_search_call(c, query_embedding, match_count, filter_metadata, table_rpc, positional, fault) ==
    /\ NextToStart(c)
    /\ op' = [op EXCEPT ![c] = "vector_search"]
    /\ args' = [args EXCEPT ![c] = [query |-> "", query_embedding |-> query_embedding,
                                    match_count |-> match_count,
                                    filter_metadata |-> filter_metadata,
                                    table_rpc |-> table_rpc]]
    /\ LET out == vector_search(store, collection_map, query_embedding, match_count,
                                filter_metadata, table_rpc, positional, fault)
       IN End(c, out, SearchCalls(out))
    /\ UNCHANGED <<collection_map, taskVars>>

Next ==
    \E c \in Calls :
        \/ \E q \in Queries, i \in ServiceInputs :
               search_documents(c, q, i.match_count, i.filter_metadata)
        \/ \E q \in Queries, i \in ServiceInputs :
               search_code_examples(c, q, i.match_count, i.filter_metadata)
        \/ \E emb \in EmbeddingOutcomes(args[c].query), positional \in BOOLEAN,
              fault \in StoreFaults :
               search_documents_resume(c, emb, positional, fault)
        \/ \E emb \in EmbeddingOutcomes(args[c].query), positional \in BOOLEAN,
              fault \in StoreFaults :
               search_code_examples_resume(c, emb, positional, fault)

Spec == Init /\ [][Next]_vars

\* One call of any entry point over the whole input range, from the initial
\* state.
CallNext ==
    \/ \E v \in Vectors, k \in MatchCounts, f \in Filters, a \in Aliases,
          positional \in BOOLEAN, fault \in StoreFaults :
           vector_search_call(1, v, k, f, a, positional, fault)
    \/ \E q \in Queries, k \in MatchCounts, f \in Filters :
           search_documents(1, q, k, f)
    \/ \E q \in Queries, k \in MatchCounts, f \in Filters :
           search_code_examples(1, q, k, f)
    \/ \E emb \in EmbeddingOutcomes(args[1].query), positional \in BOOLEAN,
          fault \in StoreFaults :
           search_documents_resume(1, emb, positional, fault)
    \/ \E emb \in EmbeddingOutcomes(args[1].query), positional \in BOOLEAN,
          fault \in StoreFaults :
           search_code_examples_resume(1, emb, positional, fault)

CallSpec == Init /\ [][CallNext]_vars

(***************************************************************************)
(* TaskService (projects/task_service.py) over SQLiteCursorContext         *)
(* (client_manager.py).  A row of archon_tasks is [id, project_id, title,  *)
(* status]; the columns description, assignee, created_at and updated_at   *)
(* are written and never read by these operations and are left out.        *)
(***************************************************************************)
VALID_STATUSES == {"todo", "doing", "review", "done"}

Statuses == VALID_STATUSES \cup {"blocked", ""}

ProjectIds == {1, 2}

Titles == {"write docs"}

TaskIds == 1..(MaxTasks + 1)

\* Mutant: any non-empty status is accepted.
ValidStatus_nonEmpty(status) == status # ""

\* `status not in self.VALID_STATUSES` is false
ValidStatus(status) == status \in VALID_STATUSES

\* INSERT INTO archon_tasks ...; the rowid is one more than the largest so far
InsertTask(rows, project_id, title, status) ==
    Append(rows, [id |-> Len(rows) + 1, project_id |-> project_id, title |-> title,
                  status |-> status])

\* UPDATE archon_tasks SET status = ? WHERE id = ?
UpdateTask(rows, task_id, status) ==
    [i \in 1..Len(rows) |->
        IF rows[i].id = task_id THEN [rows[i] EXCEPT !.status = status] ELSE rows[i]]

\* cur.rowcount after the UPDATE
RowCount(rows, task_id) == Cardinality({i \in 1..Len(rows) : rows[i].id = task_id})

\* SQLiteCursorContext.__exit__: commit when the block ended without an
\* exception (a `return` inside it included), rollback otherwise.
ContextExit(before, after, exc) == IF exc THEN before ELSE after

Called(name, status, task_id, ok, err, raised, opened, rows) ==
    last' = [op |-> name, status |-> status, task_id |-> task_id, ok |-> ok,
             error |-> err, raised |-> raised, opened |-> opened,
             changed |-> (rows # archon_tasks)]

\* `dbFails`: cur.execute raises sqlite3.Error after the statement took effect
\* inside the transaction.
create_task(project_id, title, status, dbFails) ==
    /\ ValidStatus(status) => Len(archon_tasks) < MaxTasks
    /\ IF ~ValidStatus(status)
       THEN /\ UNCHANGED archon_tasks
            /\ Called("create_task", status, 0, FALSE, "Invalid status", FALSE, FALSE,
                      archon_tasks)
       ELSE LET rows == ContextExit(archon_tasks,
                                    InsertTask(archon_tasks, project_id, title, status),
                                    dbFails)
            IN /\ archon_tasks' = rows
               /\ Called("create_task", status, IF dbFails THEN 0 ELSE Len(rows),
                         ~dbFails, IF dbFails THEN "sqlite3.Error" ELSE "", dbFails, TRUE,
                         rows)
    /\ UNCHANGED searchVars

list_tasks(dbFails) ==
    /\ Called("list_tasks", "", 0, ~dbFails, IF dbFails THEN "sqlite3.Error" ELSE "",
              dbFails, TRUE, archon_tasks)
    /\ UNCHANGED <<archon_tasks, searchVars>>

update_status(task_id, status, dbFails) ==
    /\ IF ~ValidStatus(status)
       THEN /\ UNCHANGED archon_tasks
            /\ Called("update_status", status, task_id, FALSE, "Invalid status", FALSE,
                      FALSE, archon_tasks)
       ELSE LET rows == ContextExit(archon_tasks,
                                    UpdateTask(archon_tasks, task_id, status), dbFails)
                found == RowCount(archon_tasks, task_id) # 0
            IN /\ archon_tasks' = rows
               /\ Called("update_status", status, task_id, ~dbFails /\ found,
                         IF dbFails THEN "sqlite3.Error"
                         ELSE IF found THEN "" ELSE "not found",
                         dbFails, TRUE, rows)
    /\ UNCHANGED searchVars

TaskNext ==
    \/ \E p \in ProjectIds, t \in Titles, s \in Statuses, dbFails \in BOOLEAN :
           create_task(p, t, s, dbFails)
    \/ \E dbFails \in BOOLEAN : list_tasks(dbFails)
    \/ \E id \in TaskIds, s \in Statuses, dbFails \in BOOLEAN :
           update_status(id, s, dbFails)

TaskSpec == Init /\ [][TaskNext]_vars

(***************************************************************************)
(* Properties.                                                             *)
(***************************************************************************)
Finished(c) == pc[c] \in {"returned", "raised"}

IsService(c) == op[c] \in {"search_documents", "search_code_examples"}

\* The call has run vector_search: a direct call, or a RAGService call whose
\* embedding was returned.
Entered(c) ==
    /\ Finished(c)
    /\ \/ op[c] = "vector_search"
       \/ IsService(c) /\ Len(trace[c]) >= 1 /\ trace[c][1].outcome = "ok"

\* The places <<c, i>> of the trace entries that are calls of `name`.
CallsOf(name) ==
    UNION {{<<c, i>> : i \in {j \in 1..Len(trace[c]) : trace[c][j].call = name}} : c \in Calls}

PayloadOf(r) == IF r.payload.isNone THEN EmptyDict ELSE r.payload.dict

\* C1: when create_embedding raises during search_documents or
\* search_code_examples, the call raises that same error, returns no list, makes
\* no client.search call, and calls create_embedding once only.
C1_EmbeddingFailurePropagates ==
    \A c \in Calls :
        (IsService(c) /\ Finished(c) /\ trace[c][1].call = "create_embedding"
         /\ trace[c][1].outcome \in EmbeddingErrors)
        => /\ pc[c] = "raised"
           /\ error[c] = trace[c][1].outcome
           /\ result[c] = <<>>
           /\ requests[c] = <<>>
           /\ Len(trace[c]) = 1

C1_Witness ==
    \E c \in Calls :
        /\ IsService(c) /\ pc[c] = "raised" /\ error[c] \in EmbeddingErrors
        /\ \E d \in Calls : d # c /\ pc[d] = "returned" /\ Len(requests[d]) = 1

\* C2 as stated: every call with match_count <= 0 fails at once and makes no
\* client.search call.
C2_NonPositiveCountRejected ==
    \A c \in Calls :
        (Finished(c) /\ args[c].match_count <= 0)
        => pc[c] = "raised" /\ requests[c] = <<>>

\* C2 as amended: match_count is not validated.  A call with match_count <= 0
\* that has built its filter makes exactly one client.search call with
\* limit = match_count and ends the way the store answers: the store's error
\* unchanged, or its hits shaped.  The only error raised before the round trip
\* is the TypeError of building a non-empty filter.
C2_NonPositiveCountReachesStore ==
    \A c \in Calls :
        (Entered(c) /\ args[c].match_count <= 0)
        => IF requests[c] = <<>>
           THEN /\ pc[c] = "raised" /\ error[c] = "TypeError"
                /\ Truthy(args[c].filter_metadata)
           ELSE /\ Len(requests[c]) = 1
                /\ requests[c][1].limit = args[c].match_count
                /\ LET answer == trace[c][Len(trace[c])]
                   IN /\ answer.call = "client.search"
                      /\ IF answer.outcome = "ok"
                         THEN pc[c] = "returned" /\ Len(result[c]) = Len(raw[c])
                         ELSE pc[c] = "raised" /\ error[c] = answer.outcome

C2_Witness ==
    \E c \in Calls :
        /\ args[c].match_count <= 0 /\ pc[c] = "returned"
        /\ Len(requests[c]) = 1 /\ requests[c][1].limit = args[c].match_count

\* C3: when client.search fails, the call raises the store's error unchanged
\* after that one search (no retry); a call returns an empty list only when
\* the store answered its search with no hit.
C3_StoreFailurePropagates ==
    \A c \in Calls :
        Finished(c) =>
            /\ \A i \in 1..Len(trace[c]) :
                   (trace[c][i].call = "client.search" /\ trace[c][i].outcome # "ok")
                   => /\ pc[c] = "raised"
                      /\ error[c] = trace[c][i].outcome
                      /\ i = Len(trace[c])
                      /\ Cardinality({j \in 1..Len(trace[c]) :
                                         trace[c][j].call = "client.search"}) = 1
            /\ (pc[c] = "returned" /\ result[c] = <<>>)
               => /\ trace[c][Len(trace[c])] = [call |-> "client.search", outcome |-> "ok"]
                  /\ raw[c] = <<>>

C3_Witness ==
    /\ \E c \in Calls : pc[c] = "raised" /\ error[c] = "ConnectionError"
                        /\ Len(requests[c]) = 1
    /\ \E c \in Calls : pc[c] = "returned" /\ result[c] = <<>>

\* C4: every client.search call names collection "docs" for alias
\* match_archon_crawled_pages, "code" for match_archon_code_examples, and the
\* alias itself for any other alias; search_documents always queries "docs"
\* and search_code_examples always "code".
C4_CollectionResolution ==
    \A c \in Calls :
        /\ Entered(c) /\ ~(Truthy(args[c].filter_metadata) /\ error[c] = "TypeError")
           => Len(requests[c]) = 1
        /\ \A i \in 1..Len(requests[c]) :
              requests[c][i].collection_name =
                  CASE op[c] = "search_documents" -> "docs"
                    [] op[c] = "search_code_examples" -> "code"
                    [] OTHER ->
                        IF args[c].table_rpc = "match_archon_crawled_pages" THEN "docs"
                        ELSE IF args[c].table_rpc = "match_archon_code_examples" THEN "code"
                        ELSE args[c].table_rpc

C4_Witness ==
    \E c \in Calls :
        /\ op[c] = "vector_search" /\ args[c].table_rpc = "foo"
        /\ Len(requests[c]) = 1 /\ requests[c][1].collection_name = "foo"

C5_FilterWhenSent ==
    \A c \in Calls :
        \A r \in 1..Len(requests[c]) :
            LET f == args[c].filter_metadata
            IN IF ~f.isNone /\ Len(f.items) > 0
               THEN /\ requests[c][r].query_filter =
                           [isNone |-> FALSE,
                            must |-> [i \in 1..Len(f.items) |->
                                        [key |-> f.items[i].k,
                                         match |-> [value |-> f.items[i].v]]]]
                    /\ \A h \in 1..Len(result[c]), i \in 1..Len(f.items) :
                           /\ f.items[i].k \in DOMAIN result[c][h]
                           /\ result[c][h][f.items[i].k] = f.items[i].v
               ELSE requests[c][r].query_filter.isNone

\* C6: for match_count K > 0 the search is made with limit = K, and the call
\* returns one hit per raw hit of the store's response, the i-th built from
\* the i-th, hence at most K hits.
C6_LimitAndOrder ==
    \A c \in Calls :
        (Finished(c) /\ args[c].match_count > 0)
        => /\ \A i \in 1..Len(requests[c]) : requests[c][i].limit = args[c].match_count
           /\ pc[c] = "returned"
              => /\ Len(requests[c]) = 1
                 /\ Len(result[c]) = Len(raw[c])
                 /\ Len(result[c]) <= args[c].match_count
                 /\ \A i \in 1..Len(raw[c]) :
                        /\ DOMAIN result[c][i] = {"id", "score"} \cup DOMAIN PayloadOf(raw[c][i])
                        /\ \A k \in DOMAIN PayloadOf(raw[c][i]) \cap DOMAIN result[c][i] :
                               result[c][i][k] = PayloadOf(raw[c][i])[k]
                        /\ "id" \notin DOMAIN PayloadOf(raw[c][i])
                           => result[c][i]["id"] = raw[c][i].id

C6_Witness ==
    \E c \in Calls :
        /\ pc[c] = "returned" /\ args[c].match_count = 2
        /\ requests[c][1].collection_name = "docs"
        /\ Len(result[c]) = 2
        /\ result[c][1]["id"] # result[c][2]["id"]

\* C7: a RAGService call makes one create_embedding call; a call that returns
\* made exactly one create_embedding call and then exactly one client.search
\* call, with the returned embedding as query vector; over all calls there are
\* as many embedding calls as calls made and as many answered searches as
\* calls returned, whatever their interleaving and their query texts.
C7_EmbedThenSearch ==
    /\ \A c \in Calls :
           IsService(c) =>
               /\ Cardinality({i \in 1..Len(trace[c]) :
                                  trace[c][i].call = "create_embedding"}) = 1
               /\ trace[c][1].call = "create_embedding"
               /\ pc[c] = "returned"
                  => /\ trace[c] = <<[call |-> "create_embedding", outcome |-> "ok"],
                                     [call |-> "client.search", outcome |-> "ok"]>>
                     /\ Len(requests[c]) = 1
                     /\ requests[c][1].query_vector = create_embedding(args[c].query)
    /\ Cardinality(CallsOf("create_embedding")) = Cardinality({c \in Calls : pc[c] # "idle"})
    /\ Cardinality({p \in CallsOf("client.search") : trace[p[1]][p[2]].outcome = "ok"})
           = Cardinality({c \in Calls : pc[c] = "returned"})

C7_Witness ==
    \E c, d \in Calls :
        /\ c < d /\ args[c].query = args[d].query /\ op[c] = op[d]
        /\ pc[c] = "embedding" /\ pc[d] = "returned"

\* C8: searching leaves the store and the alias table as they were, and two
\* calls of the same method with the same arguments that return, return the
\* same list.
C8_SearchMutatesNothing ==
    /\ store = InitialStore
    /\ collection_map = COLLECTION_MAP
    /\ \A c, d \in Calls :
           (pc[c] = "returned" /\ pc[d] = "returned" /\ op[c] = op[d] /\ args[c] = args[d])
           => result[c] = result[d]

C8_Witness ==
    \E c, d \in Calls :
        /\ c # d /\ pc[c] = "returned" /\ pc[d] = "returned"
        /\ op[c] = "search_documents" /\ op[d] = "search_documents"
        /\ args[c] = args[d] /\ Len(result[c]) >= 2

\* C9: every returned hit has the keys id and score and every key of the raw
\* hit's payload with the payload's value (a None payload adds no key); when
\* the payload has neither an id nor a score key, the hit's id and score are
\* the store's.
C9_HitShape ==
    \A c \in Calls :
        pc[c] = "returned" =>
            /\ Len(result[c]) = Len(raw[c])
            /\ \A i \in 1..Len(raw[c]) :
                   LET hit == result[c][i]
                       r == raw[c][i]
                   IN /\ {"id", "score"} \subseteq DOMAIN hit
                      /\ \A k \in DOMAIN PayloadOf(r) :
                             k \in DOMAIN hit /\ hit[k] = PayloadOf(r)[k]
                      /\ r.payload.isNone => DOMAIN hit = {"id", "score"}
                      /\ ("id" \notin DOMAIN PayloadOf(r) /\ "score" \notin DOMAIN PayloadOf(r))
                         => hit["id"] = r.id /\ hit["score"] = r.score

C9_Witness ==
    \E c \in Calls :
        /\ pc[c] = "returned"
        /\ \E i \in 1..Len(raw[c]) : raw[c][i].payload.isNone
        /\ \E i \in 1..Len(raw[c]) : "language" \in DOMAIN PayloadOf(raw[c][i])

C9_CollisionWitness ==
    \E c \in Calls :
        /\ pc[c] = "returned"
        /\ \E i \in 1..Len(raw[c]) :
               "id" \in DOMAIN PayloadOf(raw[c][i]) /\ result[c][i]["id"] # raw[c][i].id

\* C10: every stored task has a status of VALID_STATUSES; a create_task or
\* update_status call with another status returns (False, error) without
\* opening a database context and without changing a row; update_status with
\* a task id that is not stored returns (False, not found) and changes no row
\* (a call the database fails raises instead and changes no row either).
C10_TaskStatusValid ==
    /\ \A i \in 1..Len(archon_tasks) : archon_tasks[i].status \in VALID_STATUSES
    /\ (last.op \in {"create_task", "update_status"} /\ last.status \notin VALID_STATUSES)
       => /\ ~last.ok /\ ~last.raised /\ last.error = "Invalid status"
          /\ ~last.opened /\ ~last.changed
    /\ (last.op = "update_status" /\ last.status \in VALID_STATUSES
        /\ \A i \in 1..Len(archon_tasks) : archon_tasks[i].id # last.task_id)
       => /\ ~last.changed
          /\ IF last.raised THEN last.error = "sqlite3.Error"
             ELSE ~last.ok /\ last.error = "not found"
    /\ last.raised => ~last.changed

C10_Witness ==
    /\ Len(archon_tasks) >= 1
    /\ last.op = "update_status" /\ last.status \in VALID_STATUSES
    /\ ~last.ok /\ last.error = "not found"

====
